---- MODULE Spec2Model ----
(***************************************************************************)
(* The scheduling engine of kubernetes-simulator (kubesim.KubeSim): the    *)
(* tick producer goroutine, the Run loop with its select, submit,          *)
(* scheduleOne, scheduleOneFilter, scheduleOneScore and the bind           *)
(* (node.CreatePod).  Plugins (Submitter, Filter, Scorer) are external:    *)
(* each call returns a nondeterministic result drawn from a small set.     *)
(***************************************************************************)
EXTENDS Integers, Sequences, FiniteSets, TLC

\* ------------------------------------------------------------------ bounds

\* Ticks the producer goroutine emits before the model stops it.
MaxTicks == 2
\* Pods the submitters create in a whole run.
MaxPods == 2
\* Pods one Submit call returns at most.
MaxBatch == 2
\* Entries of the HostPriorityList one Score call returns at most.
MaxScores == 1

\* ------------------------------------------------------- program constants

\* conf.Tick, seconds per tick (readConfig's default).
Tick == 10

\* ---------------------------------------------------------- configuration

Kinds == {"cpu", "mem"}
NodeNames == {"A", "B"}

\* conf.Cluster.Nodes: the capacity each node is built with.
NodeCapacity ==
  [n \in NodeNames |->
     IF n = "A" THEN [cpu |-> 2, mem |-> 2] ELSE [cpu |-> 4, mem |-> 4]]

\* The plugins registered before Run, in registration order.
Submitters == <<"sub1", "sub2">>
Filters == <<"flt1", "flt2">>
Scorers == <<"scr1", "scr2">>

\* Resource requests a submitted pod may carry.
RequestSet == {[cpu |-> 1, mem |-> 2], [cpu |-> 3, mem |-> 0]}

\* Hosts a scorer may name in a HostPriority, scores and weights it may give.
ScoreHosts == NodeNames
ScoreVals == {-1, 1}
Weights == {1, 2}

\* ----------------------------------------------------------------- errors

NoErr == [kind |-> "nil", idx |-> 0]
ErrCanceled == [kind |-> "context canceled", idx |-> 0]
ErrSubmitter(i) == [kind |-> "submitter", idx |-> i]
ErrFilter(i) == [kind |-> "filter", idx |-> i]
ErrScorer(i) == [kind |-> "scorer", idx |-> i]
ErrNotFound == [kind |-> "node not found", idx |-> 0]
ErrCapacity == [kind |-> "capacity exceeded", idx |-> 0]

NoPod == 0
NoNode == ""

\* ------------------------------------------------------------------ state

VARIABLES
  nodes,        \* k.nodes: name -> [capacity, allocation, pods]
  pods,         \* k.pods: the pod queue, a sequence of pod ids
  submitters,   \* k.submitters, in registration order
  filters,      \* k.filters, in registration order
  scorers,      \* k.scorers, in registration order
  podObj,       \* the pod objects created so far, indexed by pod id
  cancelled,    \* ctx is done
  tickerPc,     \* the producer goroutine: "add" or "send"
  tickerClock,  \* the producer's clock
  pc,           \* Run's position
  clock,        \* Run's clock, received from the tick channel
  snapshot,     \* Run's local nodes: the []*v1.Node built in this tick
  si,           \* submit's loop index
  pod,          \* scheduleOne's popped pod
  fi,           \* scheduleOneFilter's loop index
  fnodes,       \* scheduleOneFilter's local nodes
  sci,          \* scheduleOneScore's loop index
  scores,       \* scheduleOneScore's local scores
  weight,       \* scheduleOneScore's local weight
  nodeScore,    \* scheduleOneScore's local nodeScore map
  nodeSelected, \* scheduleOne's nodeSelected
  raised,       \* the error the last failing plugin call returned
  result,       \* what Run returned
  appended,     \* history: pod ids in the order k.pods.append took them
  popped,       \* history: pod ids in the order k.pods.pop returned them
  bindsInTick,  \* history: successful CreatePod calls of the current tick
  popsInTick,   \* history: k.pods.pop calls that returned a pod in the current tick
  called,       \* history: the Submit calls of the current tick, with arguments
  failed        \* history: nodes a filter rejected in the current attempt

plugins == <<submitters, filters, scorers>>
kstate == <<nodes, pods, podObj, plugins>>
ticker == <<tickerPc, tickerClock>>
filterLocals == <<fi, fnodes>>
scoreLocals == <<sci, scores, weight, nodeScore>>
queueHistory == <<appended, popped>>
tickHistory == <<bindsInTick, popsInTick>>
callHistory == <<called, failed>>
history == <<queueHistory, tickHistory, callHistory>>
vars == <<nodes, pods, submitters, filters, scorers, podObj, cancelled,
          tickerPc, tickerClock, pc, clock, snapshot, si, pod, fi, fnodes,
          sci, scores, weight, nodeScore, nodeSelected, raised, result,
          appended, popped, bindsInTick, popsInTick, called, failed>>

\* ---------------------------------------------------------------- helpers

Range(s) == {s[i] : i \in 1..Len(s)}

\* The orders a Go map (or a set) may be iterated in.
Perms(S) ==
  {s \in [1..Cardinality(S) -> S] : \A i, j \in 1..Cardinality(S) : s[i] = s[j] => i = j}

SeqsUpTo(S, n) == UNION {[1..m -> S] : m \in 0..n}

Min(a, b) == IF a < b THEN a ELSE b

EmptyMap == [h \in {} |-> 0]

\* ------------------------------------------------------------------- Init

\* NewKubeSim for a cluster of the given capacities, followed by the
\* registration of the given plugins.
InitFrom(capacity, subs, flts, scrs) ==
  /\ nodes = [n \in DOMAIN capacity |->
                [capacity |-> capacity[n],
                 allocation |-> [k \in Kinds |-> 0],
                 pods |-> <<>>]]
  /\ pods = <<>>
  /\ submitters = subs
  /\ filters = flts
  /\ scorers = scrs
  /\ podObj = <<>>
  /\ cancelled = FALSE
  /\ tickerPc = "add"
  /\ tickerClock = 0
  /\ pc = "loop"
  /\ clock = 0
  /\ snapshot = <<>>
  /\ si = 1
  /\ pod = NoPod
  /\ fi = 1
  /\ fnodes = <<>>
  /\ sci = 1
  /\ scores = <<>>
  /\ weight = 0
  /\ nodeScore = EmptyMap
  /\ nodeSelected = NoNode
  /\ raised = NoErr
  /\ result = NoErr
  /\ appended = <<>>
  /\ popped = <<>>
  /\ bindsInTick = 0
  /\ popsInTick = 0
  /\ called = <<>>
  /\ failed = {}

Init == InitFrom(NodeCapacity, Submitters, Filters, Scorers)

\* ------------------------------------------------------ clock (clock.Clock)

\* Clock.Add: a new clock value, the duration later.
ClockAdd(c, seconds) == c + seconds

\* ----------------------------------------------------- pod queue (podQueue)

\* podQueue.append: insert at the tail.
QueueAppend(q, p) == Append(q, p)

\* podQueue.pop: remove and return the head (errEmptyPodQueue when empty).
QueuePop(q) == [pod |-> Head(q), rest |-> Tail(q)]

\* Mutant of AppendAll: the returned pods are appended last to first.
RECURSIVE AppendAllReversed(_, _)
AppendAllReversed(q, ps) ==
  IF ps = <<>> THEN q
  ELSE AppendAllReversed(QueueAppend(q, ps[Len(ps)]), SubSeq(ps, 1, Len(ps) - 1))

\* submit's inner loop: for _, pod := range pods { k.pods.append(pod) }
RECURSIVE AppendAll(_, _)
AppendAll(q, ps) ==
  IF ps = <<>> THEN q ELSE AppendAll(QueueAppend(q, Head(ps)), Tail(ps))

\* ------------------------------------------------------ node (node.Node)

\* Mutant of Fits: only the cpu request is checked.
FitsCpuOnly(node, requests) ==
  node.allocation["cpu"] + requests["cpu"] <= node.capacity["cpu"]

\* CreatePod's capacity check: every requested kind fits.
Fits(node, requests) ==
  \A k \in Kinds : node.allocation[k] + requests[k] <= node.capacity[k]

\* CreatePod's result: nil when the pod fits, else the capacity error.
CreatePodErr(node, requests) ==
  IF Fits(node, requests) THEN NoErr ELSE ErrCapacity

\* CreatePod's effect on the node when the pod fits.
Allocate(node, p, requests) ==
  [node EXCEPT !.allocation = [k \in Kinds |-> @[k] + requests[k]],
               !.pods = Append(@, p)]

\* ------------------------------------------------------------ control flow

\* Mutant of RunReturn: the error is wrapped on the way up.
RunReturnWrapped(err) ==
  /\ pc' = "returned"
  /\ result' = [kind |-> "wrapped", idx |-> err.idx]

\* Run (and submit, scheduleOne, scheduleOneFilter, scheduleOneScore on the
\* way up) returns err to its caller unchanged.
RunReturn(err) ==
  /\ pc' = "returned"
  /\ result' = err

\* A plugin call returned err: every caller returns it.
PluginFail(err) ==
  /\ raised' = err
  /\ RunReturn(err)

\* Where control goes when submit's loop index is i.
AfterSubmit(i) == IF i > Len(submitters) THEN "scheduleOne" ELSE "submit"

\* Where control goes when scheduleOneScore's loop index is i.
AfterScore(i) == IF i > Len(scorers) THEN "pick" ELSE "score"

\* Where control goes when scheduleOneFilter's loop index is i.
AfterFilter(i) == IF i > Len(filters) THEN AfterScore(1) ELSE "filter"

\* scheduleOne returned nil: Run's loop iteration ends and its locals, and
\* those of the functions it called, are gone.
EndTick ==
  /\ pc' = "loop"
  /\ snapshot' = <<>>
  /\ si' = 1
  /\ pod' = NoPod
  /\ fi' = 1
  /\ fnodes' = <<>>
  /\ sci' = 1
  /\ scores' = <<>>
  /\ weight' = 0
  /\ nodeScore' = EmptyMap
  /\ nodeSelected' = NoNode
  /\ called' = <<>>
  /\ failed' = {}

\* The node list scheduleOne passes to scheduleOneScore: its own nodes.
ScoreArg == snapshot

\* ------------------------------------------------------------- environment

\* The context is cancelled (cmd: SIGINT or SIGTERM calls cancel()).
Cancel ==
  /\ pc # "returned"
  /\ ~cancelled
  /\ cancelled' = TRUE
  /\ UNCHANGED <<kstate, ticker, pc, clock, snapshot, si, pod, filterLocals,
                 scoreLocals, nodeSelected, raised, result, history>>

\* Mutant of TickerStep: the clock is advanced twice before it is sent.
TickerStepTwice(limit) ==
  /\ pc # "returned"
  /\ tickerPc = "add"
  /\ tickerClock < limit
  /\ tickerClock' = ClockAdd(ClockAdd(tickerClock, Tick), Tick)
  /\ tickerPc' = "send"
  /\ UNCHANGED <<kstate, cancelled, pc, clock, snapshot, si, pod, filterLocals,
                 scoreLocals, nodeSelected, raised, result, history>>

\* The producer goroutine: clock = clock.Add(k.tick seconds), then it blocks
\* on the unbuffered channel.  The model stops it at the clock limit.
TickerStep(limit) ==
  /\ pc # "returned"
  /\ tickerPc = "add"
  /\ tickerClock < limit
  /\ tickerClock' = ClockAdd(tickerClock, Tick)
  /\ tickerPc' = "send"
  /\ UNCHANGED <<kstate, cancelled, pc, clock, snapshot, si, pod, filterLocals,
                 scoreLocals, nodeSelected, raised, result, history>>

TickerAdd == TickerStep(MaxTicks * Tick)

\* -------------------------------------------------------------------- Run

\* Mutant of RunCtxDone: the cancellation case goes round the loop again.
RunCtxDoneIgnored ==
  /\ pc = "loop"
  /\ cancelled
  /\ UNCHANGED vars

\* select: case <-ctx.Done(), Run returns ctx.Err().
RunCtxDone ==
  /\ pc = "loop"
  /\ cancelled
  /\ RunReturn(ErrCanceled)
  /\ UNCHANGED <<kstate, cancelled, ticker, clock, snapshot, si, pod,
                 filterLocals, scoreLocals, nodeSelected, raised, history>>

\* select: case clock := <-tick, then the node list is built from k.nodes
\* (a Go map: any iteration order) and submit is entered.
RunTick ==
  /\ pc = "loop"
  /\ tickerPc = "send"
  /\ clock' = tickerClock
  /\ tickerPc' = "add"
  /\ \E order \in Perms(DOMAIN nodes) : snapshot' = order
  /\ pc' = AfterSubmit(1)
  /\ bindsInTick' = 0
  /\ popsInTick' = 0
  /\ UNCHANGED <<kstate, cancelled, tickerClock, si, pod, filterLocals,
                 scoreLocals, nodeSelected, raised, result, queueHistory,
                 callHistory>>

\* The pods a Submit call may return: fresh pod objects.
Batches == SeqsUpTo(RequestSet, Min(MaxBatch, MaxPods - Len(podObj)))

\* What a Submit call may return: an error, or pods.
SubmitOutcomes ==
  {[err |-> ErrSubmitter(si), pods |-> <<>>]}
    \cup {[err |-> NoErr, pods |-> b] : b \in Batches}

NewPods(batch) ==
  [j \in 1..Len(batch) |->
     [requests |-> batch[j], nodeName |-> NoNode]]

NewPodIds(batch) == [j \in 1..Len(batch) |-> Len(podObj) + j]

\* The call submit makes in this iteration, with its arguments.
SubmitCallOf(i) ==
  [submitter |-> submitters[i], clock |-> clock, nodes |-> snapshot]

\* Mutant of SubmitCall: a submitter's error is noted and the loop goes on.
SubmitCallContinue(outs) ==
  /\ pc = "submit"
  /\ called' = Append(called, SubmitCallOf(si))
  /\ \E out \in outs :
       /\ raised' = IF out.err # NoErr THEN out.err ELSE raised
       /\ podObj' = podObj \o NewPods(out.pods)
       /\ pods' = AppendAll(pods, NewPodIds(out.pods))
       /\ appended' = AppendAll(appended, NewPodIds(out.pods))
       /\ si' = si + 1
       /\ pc' = AfterSubmit(si + 1)
       /\ UNCHANGED <<nodes, plugins, result>>
  /\ UNCHANGED <<cancelled, ticker, clock, snapshot, pod, filterLocals,
                 scoreLocals, nodeSelected, popped, tickHistory, failed>>

\* submit, one iteration: submitter si is called with the clock and the node
\* list; an error is returned, or its pods are appended to the queue in the
\* order returned.
SubmitCall(outs) ==
  /\ pc = "submit"
  /\ called' = Append(called, SubmitCallOf(si))
  /\ \E out \in outs :
       IF out.err # NoErr
         THEN /\ PluginFail(out.err)
              /\ UNCHANGED <<kstate, si, appended>>
         ELSE /\ podObj' = podObj \o NewPods(out.pods)
              /\ pods' = AppendAll(pods, NewPodIds(out.pods))
              /\ appended' = AppendAll(appended, NewPodIds(out.pods))
              /\ si' = si + 1
              /\ pc' = AfterSubmit(si + 1)
              /\ UNCHANGED <<nodes, plugins, raised, result>>
  /\ UNCHANGED <<cancelled, ticker, clock, snapshot, pod, filterLocals,
                 scoreLocals, nodeSelected, popped, tickHistory, failed>>

Submit == SubmitCall(SubmitOutcomes)

\* Mutant of ScheduleOnePop: the head is read and left in the queue.
ScheduleOnePeek ==
  /\ pc = "scheduleOne"
  /\ IF pods = <<>>
       THEN /\ EndTick
            /\ UNCHANGED <<pods, popped, popsInTick, raised, result>>
       ELSE /\ pod' = QueuePop(pods).pod
            /\ pods' = pods
            /\ popped' = Append(popped, QueuePop(pods).pod)
            /\ popsInTick' = popsInTick + 1
            /\ fi' = 1
            /\ fnodes' = snapshot
            /\ pc' = AfterFilter(1)
            /\ UNCHANGED <<snapshot, si, scoreLocals, nodeSelected,
                           callHistory, raised, result>>
  /\ UNCHANGED <<nodes, podObj, plugins, cancelled, ticker, clock, appended,
                 bindsInTick>>

\* Mutant of ScheduleOnePop: the empty-queue error is returned like any other.
ScheduleOnePopErr ==
  /\ pc = "scheduleOne"
  /\ IF pods = <<>>
       THEN /\ PluginFail([kind |-> "empty pod queue", idx |-> 0])
            /\ UNCHANGED <<pods, popped, popsInTick, pod, snapshot, si, filterLocals,
                           scoreLocals, nodeSelected, callHistory>>
       ELSE /\ pod' = QueuePop(pods).pod
            /\ pods' = QueuePop(pods).rest
            /\ popped' = Append(popped, QueuePop(pods).pod)
            /\ popsInTick' = popsInTick + 1
            /\ fi' = 1
            /\ fnodes' = snapshot
            /\ pc' = AfterFilter(1)
            /\ UNCHANGED <<snapshot, si, scoreLocals, nodeSelected,
                           callHistory, raised, result>>
  /\ UNCHANGED <<nodes, podObj, plugins, cancelled, ticker, clock, appended,
                 bindsInTick>>

\* scheduleOne up to the call of scheduleOneFilter: pop, return nil on an
\* empty queue.
ScheduleOnePop ==
  /\ pc = "scheduleOne"
  /\ IF pods = <<>>
       THEN /\ EndTick
            /\ UNCHANGED <<pods, popped, popsInTick>>
       ELSE /\ pod' = QueuePop(pods).pod
            /\ pods' = QueuePop(pods).rest
            /\ popped' = Append(popped, QueuePop(pods).pod)
            /\ popsInTick' = popsInTick + 1
            /\ fi' = 1
            /\ fnodes' = snapshot
            /\ pc' = AfterFilter(1)
            /\ UNCHANGED <<snapshot, si, scoreLocals, nodeSelected,
                           callHistory>>
  /\ UNCHANGED <<nodes, podObj, plugins, cancelled, ticker, clock, raised,
                 result, appended, bindsInTick>>

\* The verdicts filter.Filter may give on the nodes of a list.
Verdicts(ns) == [1..Len(ns) -> {"ok", "no", "err"}]

\* Mutant of NodesOk: the node is kept whatever the verdict.
NodesOkAll(ns, v) == ns

\* nodesOk: the nodes of ns whose verdict is ok, in order.
RECURSIVE NodesOk(_, _)
NodesOk(ns, v) ==
  IF ns = <<>> THEN <<>>
  ELSE (IF v[1] = "ok" THEN <<Head(ns)>> ELSE <<>>)
       \o NodesOk(Tail(ns), [j \in 1..(Len(ns) - 1) |-> v[j + 1]])

\* The nodes of ns the verdicts reject.
Rejected(ns, v) == {ns[j] : j \in {i \in 1..Len(ns) : v[i] = "no"}}

\* scheduleOneFilter, one iteration: filter fi is called on every node of the
\* local list; an error is returned, or the local list becomes nodesOk.
FilterCall(vs) ==
  /\ pc = "filter"
  /\ \E v \in vs :
       IF \E j \in 1..Len(fnodes) : v[j] = "err"
         THEN /\ PluginFail(ErrFilter(fi))
              /\ UNCHANGED <<fi, fnodes, failed>>
         ELSE /\ fnodes' = NodesOk(fnodes, v)
              /\ failed' = failed \cup Rejected(fnodes, v)
              /\ fi' = fi + 1
              /\ pc' = AfterFilter(fi + 1)
              /\ UNCHANGED <<raised, result>>
  /\ UNCHANGED <<kstate, cancelled, ticker, clock, snapshot, si, pod,
                 scoreLocals, nodeSelected, queueHistory, tickHistory, called>>

ScheduleOneFilter == FilterCall(Verdicts(fnodes))

\* The HostPriorityLists and weights scorer.Score may return.
HostPriorities == [Host : ScoreHosts, Score : ScoreVals]
ScoreLists == SeqsUpTo(HostPriorities, MaxScores)

\* What a Score call may return: an error, or scores and a weight.
ScoreOutcomes ==
  {[err |-> ErrScorer(sci), scores |-> <<>>, weight |-> 0]}
    \cup {[err |-> NoErr, scores |-> l, weight |-> w] :
            l \in ScoreLists, w \in Weights}

\* nodeScore[host] += v on a Go map: a missing key reads as 0.
MapAdd(m, host, v) ==
  [h \in DOMAIN m \cup {host} |->
     (IF h \in DOMAIN m THEN m[h] ELSE 0) + (IF h = host THEN v ELSE 0)]

\* for _, score := range scores { nodeScore[score.Host] += score.Score * weight }
RECURSIVE Accumulate(_, _, _)
Accumulate(m, list, w) ==
  IF list = <<>> THEN m
  ELSE Accumulate(MapAdd(m, Head(list).Host, Head(list).Score * w), Tail(list), w)

\* scheduleOneScore, one iteration of its first loop: scorer sci is called
\* with the pod and the node list; an error is returned, or its scores are
\* added to nodeScore.
ScoreCall(outs) ==
  /\ pc = "score"
  /\ \E out \in outs :
       IF out.err # NoErr
         THEN /\ PluginFail(out.err)
              /\ UNCHANGED scoreLocals
         ELSE /\ scores' = out.scores
              /\ weight' = out.weight
              /\ nodeScore' = Accumulate(nodeScore, out.scores, out.weight)
              /\ sci' = sci + 1
              /\ pc' = AfterScore(sci + 1)
              /\ UNCHANGED <<raised, result>>
  /\ UNCHANGED <<kstate, cancelled, ticker, clock, snapshot, si, pod,
                 filterLocals, nodeSelected, history>>

ScheduleOneScore == ScoreCall(ScoreOutcomes)

\* Mutant of ScanMax: a strictly smaller score replaces the maximum.
RECURSIVE ScanMin(_, _, _, _)
ScanMin(order, m, scoreMax, scoreMaxNode) ==
  IF order = <<>> THEN scoreMaxNode
  ELSE IF m[Head(order)] < scoreMax
    THEN ScanMin(Tail(order), m, m[Head(order)], Head(order))
    ELSE ScanMin(Tail(order), m, scoreMax, scoreMaxNode)

\* The selection loop over nodeScore, visited in the given order, from
\* scoreMax and scoreMaxNode: a strictly greater score replaces the maximum.
RECURSIVE ScanMax(_, _, _, _)
ScanMax(order, m, scoreMax, scoreMaxNode) ==
  IF order = <<>> THEN scoreMaxNode
  ELSE IF m[Head(order)] > scoreMax
    THEN ScanMax(Tail(order), m, m[Head(order)], Head(order))
    ELSE ScanMax(Tail(order), m, scoreMax, scoreMaxNode)

\* scoreMaxNode for one iteration order of the map: scoreMax starts at -1.
ScoreMaxNode(order, m) == ScanMax(order, m, -1, NoNode)

\* scheduleOneScore after its first loop: the maximum is looked up in k.nodes;
\* not found is an error, else pod.Spec.NodeName is set and the node returned.
ScheduleOnePick ==
  /\ pc = "pick"
  /\ \E order \in Perms(DOMAIN nodeScore) :
       LET scoreMaxNode == ScoreMaxNode(order, nodeScore) IN
         IF scoreMaxNode \notin DOMAIN nodes
           THEN /\ RunReturn(ErrNotFound)
                /\ UNCHANGED <<podObj, nodeSelected>>
           ELSE /\ podObj' = [podObj EXCEPT ![pod].nodeName = scoreMaxNode]
                /\ nodeSelected' = scoreMaxNode
                /\ pc' = "bind"
                /\ UNCHANGED result
  /\ scores' = <<>>
  /\ weight' = 0
  /\ UNCHANGED <<nodes, pods, plugins, cancelled, ticker, clock, snapshot, si,
                 pod, filterLocals, sci, nodeScore, raised, history>>

\* Mutant of ScheduleOneBind: after a bind scheduleOne is entered again.
ScheduleOneBindAgain ==
  /\ pc = "bind"
  /\ IF CreatePodErr(nodes[nodeSelected], podObj[pod].requests) = NoErr
       THEN /\ nodes' = [nodes EXCEPT ![nodeSelected] =
                           Allocate(@, pod, podObj[pod].requests)]
            /\ podObj' = [podObj EXCEPT ![pod].nodeName = nodeSelected]
            /\ bindsInTick' = bindsInTick + 1
            /\ pc' = "scheduleOne"
            /\ nodeScore' = EmptyMap
            /\ sci' = 1
            /\ UNCHANGED <<result, snapshot, si, pod, filterLocals, scores,
                           weight, nodeSelected, callHistory>>
       ELSE /\ RunReturn(CreatePodErr(nodes[nodeSelected], podObj[pod].requests))
            /\ UNCHANGED <<nodes, podObj, bindsInTick, snapshot, si, pod,
                           filterLocals, scoreLocals, nodeSelected,
                           callHistory>>
  /\ UNCHANGED <<pods, plugins, cancelled, ticker, clock, raised,
                 queueHistory, popsInTick>>

\* scheduleOne's nodeSelected.CreatePod(clock, pod): the pod is bound when its
\* requests fit, else the error is returned and nothing is changed.
ScheduleOneBind ==
  /\ pc = "bind"
  /\ IF CreatePodErr(nodes[nodeSelected], podObj[pod].requests) = NoErr
       THEN /\ nodes' = [nodes EXCEPT ![nodeSelected] =
                           Allocate(@, pod, podObj[pod].requests)]
            /\ podObj' = [podObj EXCEPT ![pod].nodeName = nodeSelected]
            /\ bindsInTick' = bindsInTick + 1
            /\ EndTick
            /\ UNCHANGED result
       ELSE /\ RunReturn(CreatePodErr(nodes[nodeSelected], podObj[pod].requests))
            /\ UNCHANGED <<nodes, podObj, bindsInTick, snapshot, si, pod,
                           filterLocals, scoreLocals, nodeSelected,
                           callHistory>>
  /\ UNCHANGED <<pods, plugins, cancelled, ticker, clock, raised,
                 queueHistory, popsInTick>>

\* ----------------------------------------------------------- specification

Next ==
  \/ Cancel
  \/ TickerAdd
  \/ RunCtxDone
  \/ RunTick
  \/ Submit
  \/ ScheduleOnePop
  \/ ScheduleOneFilter
  \/ ScheduleOneScore
  \/ ScheduleOnePick
  \/ ScheduleOneBind

Spec == Init /\ [][Next]_vars

\* The producer goroutine past the model's clock limit: it goes on offering
\* ticks for ever; the model no longer advances the clock value it sends.
TickerIdle ==
  /\ pc # "returned"
  /\ tickerPc = "add"
  /\ tickerClock >= MaxTicks * Tick
  /\ tickerPc' = "send"
  /\ UNCHANGED <<kstate, cancelled, tickerClock, pc, clock, snapshot, si, pod,
                 filterLocals, scoreLocals, nodeSelected, raised, result,
                 history>>

\* A step of the goroutine that runs Run.
RunStep ==
  \/ RunCtxDone
  \/ RunTick
  \/ Submit
  \/ ScheduleOnePop
  \/ ScheduleOneFilter
  \/ ScheduleOneScore
  \/ ScheduleOnePick
  \/ ScheduleOneBind

LiveNext ==
  \/ Cancel
  \/ TickerAdd
  \/ TickerIdle
  \/ RunCtxDone
  \/ RunTick
  \/ Submit
  \/ ScheduleOnePop
  \/ ScheduleOneFilter
  \/ ScheduleOneScore
  \/ ScheduleOnePick
  \/ ScheduleOneBind

\* Both goroutines are scheduled and every plugin call returns (weak
\* fairness); the select takes each case that is ready again and again
\* (strong fairness of the cancellation case).
Fairness ==
  /\ WF_vars(TickerAdd \/ TickerIdle)
  /\ WF_vars(RunStep)
  /\ SF_vars(RunCtxDone)

\* The cluster of Init with both submitters, both filters and one scorer
\* registered.
LiveInit == InitFrom(NodeCapacity, Submitters, Filters, <<"scr1">>)

LiveSpec == LiveInit /\ [][LiveNext]_vars /\ Fairness

\* ---------------------------------------------------- fill-order scenario

\* Two nodes, N1 with 4 cpu and N2 with 2 cpu.
ScenarioCapacity ==
  [n \in {"N1", "N2"} |->
     IF n = "N1" THEN [cpu |-> 4, mem |-> 0] ELSE [cpu |-> 2, mem |-> 0]]

\* The scenario runs for 6 ticks.
ScenarioEnd == 6 * Tick

\* One submitter, one filter and one scorer are registered.
ScenarioInit == InitFrom(ScenarioCapacity, <<"sub1">>, <<"flt1">>, <<"scr1">>)

ScenarioTicker == TickerStep(ScenarioEnd)

\* The submitter returns one pod requesting 1 cpu at every tick.
ScenarioSubmit ==
  SubmitCall({[err |-> NoErr, pods |-> <<[cpu |-> 1, mem |-> 0]>>]})

\* The filter passes a node when allocation + request <= capacity.  The node
\* views of a tick show the allocation the tick began with, which is the
\* registry's until the tick's bind.
ScenarioVerdicts ==
  {[j \in 1..Len(fnodes) |->
      IF Fits(nodes[fnodes[j]], podObj[pod].requests) THEN "ok" ELSE "no"]}

ScenarioFilter == FilterCall(ScenarioVerdicts)

\* The remaining free cpu of a node.
Free(node) == node.capacity["cpu"] - node.allocation["cpu"]

\* The scorer scores every node it is given by its remaining free cpu,
\* with weight 1.
ScenarioScores ==
  [j \in 1..Len(ScoreArg) |->
     [Host |-> ScoreArg[j], Score |-> Free(nodes[ScoreArg[j]])]]

ScenarioScore ==
  ScoreCall({[err |-> NoErr, scores |-> ScenarioScores, weight |-> 1]})

ScenarioNext ==
  \/ ScenarioTicker
  \/ RunTick
  \/ ScenarioSubmit
  \/ ScheduleOnePop
  \/ ScenarioFilter
  \/ ScenarioScore
  \/ ScheduleOnePick
  \/ ScheduleOneBind

ScenarioSpec == ScenarioInit /\ [][ScenarioNext]_vars

\* ------------------------------------------------------------------ claims

\* How many times pod p is bound, over all nodes.
BoundCount(ns, p) ==
  Cardinality(UNION {{<<n, i>> : i \in {j \in 1..Len(ns[n].pods) : ns[n].pods[j] = p}} :
                       n \in DOMAIN ns})

\* C1: in every reachable state, every node's allocation of every resource
\* kind is at most its capacity of that kind.
C1_CapacityInvariant ==
  \A n \in DOMAIN nodes, k \in Kinds :
    nodes[n].allocation[k] <= nodes[n].capacity[k]

\* C1 witness: a bind was rejected on a node that already holds a pod and is
\* full in some kind.
C1_Witness ==
  /\ pc = "returned"
  /\ result = ErrCapacity
  /\ nodes[nodeSelected].pods # <<>>
  /\ \E k \in Kinds : nodes[nodeSelected].allocation[k] = nodes[nodeSelected].capacity[k]

\* C2: every scorer is handed exactly the nodes that passed every filter, and
\* the node selected for the pod is one of them.
C2_ScorersRankSurvivors ==
  /\ pc = "score" => Range(ScoreArg) = Range(fnodes)
  /\ pc = "bind" => nodeSelected \in Range(fnodes)

\* The part of a HostPriorityList that names host h, summed.
RECURSIVE SumFor(_, _)
SumFor(list, h) ==
  IF list = <<>> THEN 0
  ELSE (IF Head(list).Host = h THEN Head(list).Score ELSE 0) + SumFor(Tail(list), h)

\* A node's accumulated total: 0 until a scorer names it.
Total(m, h) == IF h \in DOMAIN m THEN m[h] ELSE 0

\* C3: each scorer adds score * weight to the total of every node it scores,
\* and (with every node feasible) a node whose total is strictly greater than
\* every other node's total is the node selected.
C3_ScoreAggregation ==
  [][/\ (pc = "score" /\ sci' = sci + 1) =>
          \A h \in ScoreHosts :
            Total(nodeScore', h) = Total(nodeScore, h) + weight' * SumFor(scores', h)
     /\ (pc = "pick" /\ pc' # "pick" /\ Range(fnodes) = DOMAIN nodes) =>
          \A n \in DOMAIN nodeScore :
            (\A m \in DOMAIN nodeScore \ {n} : nodeScore[n] > nodeScore[m])
              => (pc' = "bind" /\ nodeSelected' = n)]_vars

\* C4: when no node passed the filters, the pod is not placed, nothing is
\* bound and Run does not return (but for a scorer's own error).
C4_NoFeasibleNodeNonFatal ==
  [][(pod # NoPod /\ pc \in {"score", "pick", "bind"} /\ fnodes = <<>>) =>
       /\ nodes' = nodes
       /\ podObj' = podObj
       /\ (pc' = "returned" => result'.kind = "scorer")]_vars

\* C5: Run never returns the capacity error of a rejected bind.
C5_CapacityExceededNonFatal ==
  pc = "returned" => result # ErrCapacity

\* C6: a failed bind leaves every node unchanged and the pod's assigned node
\* unset, and a pod's assigned node is set only if the pod is bound to it.
C6_FailedBindMutatesNothing ==
  [][(pc = "bind" /\ pc' = "returned") =>
       /\ nodes' = nodes
       /\ podObj'[pod].nodeName = NoNode
       /\ \A p \in DOMAIN podObj' :
            podObj'[p].nodeName # NoNode =>
              p \in Range(nodes'[podObj'[p].nodeName].pods)]_vars

\* C7: when a plugin call returns an error, Run returns that very error in
\* the same step, no pod was bound in the tick, and nothing happens after
\* Run has returned.
C7_PluginErrorsFatal ==
  [][/\ raised' # raised =>
          /\ pc' = "returned"
          /\ result' = raised'
          /\ bindsInTick' = 0
          /\ nodes' = nodes
     /\ pc = "returned" =>
          /\ pc' = "returned"
          /\ result' = result
          /\ clock' = clock
          /\ kstate' = kstate]_vars

\* C7 witness: Run returned a scorer's error after an earlier tick bound a pod.
C7_Witness ==
  /\ pc = "returned"
  /\ raised.kind = "scorer"
  /\ result = raised
  /\ \E n \in NodeNames : nodes[n].pods # <<>>

\* C8: pods are appended in the order the submitters returned them, and are
\* popped in the order they were appended.
C8_FIFO ==
  /\ appended = [i \in 1..Len(podObj) |-> i]
  /\ popped \o pods = appended

\* C8 witness: two pods were appended and then popped in order, one a tick.
C8_Witness ==
  /\ popped = <<1, 2>>
  /\ clock = 2 * Tick
  /\ pods = <<>>

\* C9: a pod's assigned node, once set, never changes, and no pod is bound
\* to two nodes or twice.
C9_AtMostOnceBinding ==
  [][/\ \A p \in DOMAIN podObj :
          podObj[p].nodeName # NoNode => podObj'[p].nodeName = podObj[p].nodeName
     /\ \A p \in DOMAIN podObj' : BoundCount(nodes', p) <= 1]_vars

\* C9 witness: a bound pod, and a later pod being scheduled.
C9_Witness ==
  /\ pc = "bind"
  /\ \E p \in DOMAIN podObj :
       /\ p # pod
       /\ podObj[p].nodeName # NoNode
       /\ BoundCount(nodes, p) = 1

\* C10: once the context is cancelled, Run at the top of its loop does not
\* begin another tick.
C10_CancelStopsLoop ==
  [][(cancelled /\ pc = "loop") => pc' \in {"loop", "returned"}]_vars

BoundTo(p) ==
  IF \E n \in DOMAIN nodes : p \in Range(nodes[n].pods)
    THEN CHOOSE n \in DOMAIN nodes : p \in Range(nodes[n].pods)
    ELSE NoNode

\* C13 as stated: in the scenario the first 4 pods are bound to N1 and the
\* next 2 to N2.
C13_FillOrder ==
  \A p \in DOMAIN podObj :
    BoundTo(p) \in {NoNode, IF p <= 4 THEN "N1" ELSE "N2"}

\* C13, amended: in the scenario no tick fails, a pod goes to a node with the
\* most free cpu, so the first 2 pods are bound to N1, and when the 6 ticks
\* are over every one of the 6 pods is bound, 4 of them to N1 and 2 to N2,
\* the third and fourth one to each node and the fifth and sixth one to each.
C13_FillTotals ==
  /\ result = NoErr
  /\ \A p \in DOMAIN podObj : p <= 2 => BoundTo(p) \in {NoNode, "N1"}
  /\ (clock = ScenarioEnd /\ pc = "loop") =>
       /\ \A p \in 1..6 : BoundTo(p) # NoNode
       /\ Len(nodes["N1"].pods) = 4
       /\ Len(nodes["N2"].pods) = 2
       /\ BoundTo(3) # BoundTo(4)
       /\ BoundTo(5) # BoundTo(6)

\* The 6 ticks are over and the fourth pod is on N2.
C13_Witness ==
  /\ clock = ScenarioEnd
  /\ pc = "loop"
  /\ BoundTo(4) = "N2"

\* C14: since a tick began at most one pod was popped and at most one bound,
\* the pod popped; every step changes the length of the queue by the pods it
\* appends minus the pod it pops, so a whole tick changes it by the pods
\* submitted minus at most one.
C14_OneDecisionPerTick ==
  /\ [](/\ popsInTick \in {0, 1}
        /\ bindsInTick <= popsInTick)
  /\ [][/\ Len(pods') - Len(pods) =
             (Len(appended') - Len(appended)) - (Len(popped') - Len(popped))
        /\ Len(popped') - Len(popped) =
             IF popsInTick' > popsInTick THEN popsInTick' - popsInTick ELSE 0]_vars

\* The first tick is over: two pods were submitted in it, one was popped and
\* bound, the other is still queued.
C14_Witness ==
  /\ pc = "loop"
  /\ clock = Tick
  /\ Len(appended) = 2
  /\ bindsInTick = 1
  /\ Len(pods) = 1

\* C15: when the queue is empty after the submitters ran, scheduleOne ends the
\* tick at once: no filter, scorer or bind step is entered, the nodes, the
\* queue and the pods stay as they are, no error is raised or returned and Run
\* is back at the top of its loop.
C15_EmptyQueueNoOp ==
  [][(pc = "scheduleOne" /\ pods = <<>> /\ pc' # pc) =>
       /\ pc' = "loop"
       /\ nodes' = nodes
       /\ pods' = pods
       /\ podObj' = podObj
       /\ popped' = popped
       /\ bindsInTick' = 0
       /\ raised' = NoErr
       /\ result' = NoErr]_vars

\* A second tick is over that found the queue empty and popped nothing.
C15_Witness ==
  /\ pc = "loop"
  /\ clock = 2 * Tick
  /\ popsInTick = 0
  /\ pods = <<>>
  /\ result = NoErr

C17_DeterministicSelection ==
  pc = "pick" =>
    \A o1, o2 \in Perms(DOMAIN nodeScore) :
      ScoreMaxNode(o1, nodeScore) = ScoreMaxNode(o2, nodeScore)

\* C18: the filters run in registration order, each on the list the previous
\* one left: the list after a filter holds only nodes of the list before it,
\* and no node an earlier filter rejected for this pod is in the list a
\* filter is given.
C18_FilterNarrowing ==
  /\ [](pc = "filter" => /\ fi \in 1..Len(filters)
                         /\ Range(fnodes) \cap failed = {})
  /\ [][(pc = "filter" /\ fi' # fi) =>
          /\ fi' = fi + 1
          /\ Range(fnodes') \subseteq Range(fnodes)
          /\ Range(fnodes') \cap failed' = {}]_vars

\* The second filter is about to run on a list the first one narrowed to one
\* node.
C18_Witness ==
  /\ pc = "filter"
  /\ fi = 2
  /\ Len(fnodes) = 1
  /\ Cardinality(failed) = 1

\* C19: scorers name only nodes of the list they are given and no node is
\* ever removed, so an attempt in which some node passed all the filters never
\* ends with the node-not-found error.
C19_NotFoundOnlyDefensive ==
  (pc = "returned" /\ DOMAIN nodeScore \subseteq Range(ScoreArg) /\ fnodes # <<>>) =>
    result # ErrNotFound

\* The calls of the first n registered submitters, in registration order,
\* each with the tick's clock and node list.
CallsUpTo(n) == [i \in 1..n |-> SubmitCallOf(i)]

\* C20: in a tick the submitters are called once each, in registration order,
\* with the tick's clock and the node list built as the tick began, all of
\* them before the pop; when submitter i returns an error no later submitter
\* is called, Run returns that error without a pop, filter, score or bind in
\* the tick, and every pod appended and not popped, the pods appended earlier
\* in the tick among them, is still queued.
C20_SubmissionStep ==
  /\ pc = "submit" => /\ called = CallsUpTo(si - 1)
                      /\ popsInTick = 0
  /\ pc \in {"scheduleOne", "filter", "score", "pick", "bind"} =>
       /\ called = CallsUpTo(Len(submitters))
       /\ Range(snapshot) = DOMAIN nodes
  /\ raised.kind = "submitter" =>
       /\ pc = "returned"
       /\ result = raised
       /\ called = CallsUpTo(raised.idx)
       /\ popsInTick = 0
       /\ bindsInTick = 0
       /\ pod = NoPod /\ fi = 1 /\ sci = 1
       /\ popped \o pods = appended

\* The second submitter returned an error after the first one's two pods were
\* appended: Run returned and both pods are queued.
C20_Witness ==
  /\ pc = "returned"
  /\ raised = ErrSubmitter(2)
  /\ clock = Tick
  /\ pods = <<1, 2>>

====
